---- MODULE Spec2Model ----
(***************************************************************************)
(* A model of the blender_pointcloud_renderer repository:                  *)
(*   - render_full_video.py: load_ply_file and the frame loop of main,     *)
(*   - PLYProcessor.load_ply / get_ply_info (ply_processor.py),            *)
(*   - CameraTrajectory.set_trajectory / get_info (camera_trajectory.py),  *)
(*   - PointCloudRenderer.load_point_cloud_sequence / render_sequence.     *)
(* A client calls one entry point; `entry` records which one.              *)
(***************************************************************************)
EXTENDS Integers, Sequences, FiniteSets, TLC

\* ------------------------------------------------------------------ bounds
\* Largest vertex count a header declares.
MaxVertices == 2
\* Largest number of lines after the header.
MaxRecords == 2
\* Largest number of .ply files in the directory scanned by the library.
MaxScan == 3
\* Largest number of .ply files in INPUT_DIR of the script.
MaxFrames == 21
\* Largest number of files of INPUT_DIR that the skip factor selects.
MaxOpened == 3

\* --------------------------------------------------------- python values
\* Optional[T]: Python's None, or a value.
None == [some |-> FALSE, val |-> <<>>]
Some(v) == [some |-> TRUE, val |-> v]

\* The outcome of a call: a normal return with a value, or a raised exception.
Return(v) == [kind |-> "return", exc |-> "", value |-> v]
Raise(e) == [kind |-> "raise", exc |-> e, value |-> <<>>]

\* A float that came from an integer by an optional division: num/den.
Rat(n, d) == [num |-> n, den |-> d]
\* r/255.0
Div255(c) == Rat(c, 255)
\* equality of two such floats
RatEq(a, b) == a.num * b.den = b.num * a.den

Max2(a, b) == IF a >= b THEN a ELSE b
Min2(a, b) == IF a <= b THEN a ELSE b

RECURSIVE SeqMax(_)
SeqMax(s) == IF Len(s) = 1 THEN s[1] ELSE Max2(s[1], SeqMax(Tail(s)))
RECURSIVE SeqMin(_)
SeqMin(s) == IF Len(s) = 1 THEN s[1] ELSE Min2(s[1], SeqMin(Tail(s)))
RECURSIVE SeqSum(_)
SeqSum(s) == IF s = <<>> THEN 0 ELSE s[1] + SeqSum(Tail(s))

\* ------------------------------------------------------------- PLY files
\* The color property declarations a header may carry after x, y, z.
Prop(t, n) == [type |-> t, name |-> n]
XYZ == <<Prop("float", "x"), Prop("float", "y"), Prop("float", "z")>>
ColorDecls ==
    { <<>>,
      <<Prop("uchar", "red")>>,
      <<Prop("uchar", "red"), Prop("uchar", "green"), Prop("uchar", "blue")>>,
      <<Prop("float", "red"), Prop("float", "green"), Prop("float", "blue")>>,
      <<Prop("uchar", "red"), Prop("uchar", "green"), Prop("uchar", "blue"),
        Prop("uchar", "alpha")>> }

\* Raw color triples that occur in the sample files: black, all channels in
\* {0, 1}, and a triple with channels above 1.
SampleColors == { <<0, 0, 0>>, <<1, 0, 1>>, <<255, 128, 1>> }

\* A body line: nf whitespace-separated fields; coordOk: the first three
\* parse as floats; colorOk: fields 4..6 parse as integers; rgb: their values.
Rec(nf, coordOk, colorOk, rgb) ==
    [nf |-> nf, coordOk |-> coordOk, colorOk |-> colorOk, rgb |-> rgb]
Records ==
    { Rec(2, TRUE, TRUE, <<0, 0, 0>>),        \* two fields only
      Rec(3, TRUE, TRUE, <<0, 0, 0>>),        \* position only
      Rec(3, FALSE, TRUE, <<0, 0, 0>>),       \* non-numeric coordinate
      Rec(5, TRUE, TRUE, <<0, 0, 0>>),        \* position and two channels
      Rec(6, TRUE, FALSE, <<0, 0, 0>>),       \* non-integer color field
      Rec(7, TRUE, TRUE, <<255, 128, 1>>) }   \* position, color and alpha
    \cup { Rec(6, TRUE, TRUE, c) : c \in SampleColors }

RECURSIVE SeqsUpTo(_, _)
SeqsUpTo(S, n) ==
    IF n = 0 THEN { <<>> }
    ELSE LET shorter == SeqsUpTo(S, n - 1)
         IN shorter \cup { Append(s, x) : s \in { t \in shorter : Len(t) = n - 1 }, x \in S }

\* A file on disk: whether the path exists, and the text it holds: a header
\* (ply, format ascii 1.0, element <element> <n>, the properties, and
\* end_header unless the header is cut), then the body lines.
MissingFile ==
    [exists |-> FALSE, end_header |-> FALSE, element |-> "vertex", n |-> 0,
     props |-> <<>>, body |-> <<>>]
Files ==
    { MissingFile } \cup
    { f \in [exists : {TRUE}, end_header : BOOLEAN, element : {"vertex", "face"},
             n : 0..MaxVertices, props : ColorDecls,
             body : SeqsUpTo(Records, MaxRecords)] :
        f.element = "face" => (f.n = 0 /\ f.body = <<>>) }

\* The lines of the file, as readlines() returns them. Line k of the body
\* holds the position (k, 0, k).
Line(tag, nf, n, prop, coordOk, colorOk, xyz, rgb) ==
    [tag |-> tag, nf |-> nf, n |-> n, prop |-> prop, coordOk |-> coordOk,
     colorOk |-> colorOk, xyz |-> xyz, rgb |-> rgb]
HeaderLine(tag, nf, n, prop) ==
    Line(tag, nf, n, prop, FALSE, FALSE, <<0, 0, 0>>, <<0, 0, 0>>)
DataLine(k, r) ==
    Line("data", r.nf, 0, Prop("", ""), r.coordOk, r.colorOk, <<k, 0, k>>, r.rgb)
Lines(f) ==
    <<HeaderLine("ply", 1, 0, Prop("", "")),
      HeaderLine("format", 3, 0, Prop("", "")),
      HeaderLine(IF f.element = "vertex" THEN "element vertex" ELSE "element face",
                 3, f.n, Prop("", ""))>>
    \o [k \in 1..(3 + Len(f.props)) |->
          HeaderLine("property", 3, 0, (XYZ \o f.props)[k])]
    \o (IF f.end_header THEN <<HeaderLine("end_header", 1, 0, Prop("", ""))>> ELSE <<>>)
    \o [k \in 1..Len(f.body) |-> DataLine(k, f.body[k])]

\* ------------------------------------------- render_full_video.load_ply_file
\* The header loop: the declared vertex count, whether a line starts with
\* "property uchar red", and the index of the line after end_header
\* (0 when there is no end_header). k is the 1-based line number.
RECURSIVE ScanHeader(_, _, _)
ScanHeader(lines, k, st) ==
    IF k > Len(lines) THEN st
    ELSE LET line == lines[k]
         IN IF line.tag = "element vertex"
            THEN ScanHeader(lines, k + 1, [st EXCEPT !.vertex_count = line.n])
            ELSE IF line.tag = "property" /\ line.prop = Prop("uchar", "red")
            THEN ScanHeader(lines, k + 1, [st EXCEPT !.has_colors = TRUE])
            ELSE IF line.tag = "end_header"
            THEN [st EXCEPT !.header_end = k]
            ELSE ScanHeader(lines, k + 1, st)

\* The color appended for an accepted line: the normalized triple when the
\* line has six fields, the default white otherwise.
White == <<Rat(1, 1), Rat(1, 1), Rat(1, 1)>>
NormalizedColor(rgb) == <<Div255(rgb[1]), Div255(rgb[2]), Div255(rgb[3])>>
\* Fault: the elif branch that appends the default color is missing.
AppendColorNoDefault(colors, parts, has_colors) ==
    IF has_colors /\ parts.nf >= 6 THEN Append(colors, NormalizedColor(parts.rgb))
    ELSE colors
AppendColor(colors, parts, has_colors) ==
    IF has_colors /\ parts.nf >= 6 THEN Append(colors, NormalizedColor(parts.rgb))
    ELSE IF has_colors THEN Append(colors, White)
    ELSE colors

\* The vertex loop over lines header_end .. header_end + vertex_count - 1
\* (0-based), here k .. stop 1-based. float() of a non-numeric coordinate and
\* int() of a non-integer color field raise ValueError.
RECURSIVE ParseVertices(_, _, _, _, _)
ParseVertices(lines, k, stop, has_colors, acc) ==
    IF k > stop \/ k > Len(lines) THEN acc
    ELSE LET parts == lines[k]
         IN IF parts.nf >= 3
            THEN IF ~parts.coordOk \/ (has_colors /\ parts.nf >= 6 /\ ~parts.colorOk)
                 THEN [acc EXCEPT !.raised = TRUE]
                 ELSE ParseVertices(lines, k + 1, stop, has_colors,
                        [acc EXCEPT !.points = Append(@, parts.xyz),
                                    !.colors = AppendColor(@, parts, has_colors)])
            ELSE ParseVertices(lines, k + 1, stop, has_colors, acc)

load_ply_file(f) ==
    IF ~f.exists THEN Raise("FileNotFoundError")
    ELSE LET lines == Lines(f)
             hdr == ScanHeader(lines, 1,
                      [header_end |-> 0, vertex_count |-> 0, has_colors |-> FALSE])
             got == ParseVertices(lines, hdr.header_end + 1,
                      hdr.header_end + hdr.vertex_count, hdr.has_colors,
                      [raised |-> FALSE, points |-> <<>>, colors |-> <<>>])
         IN IF got.raised THEN Raise("ValueError")
            ELSE Return([points |-> Some(got.points),
                         colors |-> IF got.colors = <<>> THEN None ELSE Some(got.colors)])

\* ------------------------------------------------------ plyfile.PlyData.read
\* A body line parses as a row of the element when it has exactly one field
\* per declared property and every field is numeric.
RowOk(props, r) ==
    r.nf = Len(props) /\ r.coordOk /\ (Len(props) > 3 => r.colorOk)
PlyRead(f) ==
    IF ~f.exists THEN Raise("FileNotFoundError")
    ELSE IF ~f.end_header THEN Raise("PlyHeaderParseError")
    ELSE IF Len(f.body) < f.n THEN Raise("PlyElementParseError")
    ELSE IF \E k \in 1..f.n : ~RowOk(XYZ \o f.props, f.body[k])
    THEN Raise("PlyElementParseError")
    ELSE Return([element |-> f.element, properties |-> XYZ \o f.props,
                 rows |-> [k \in 1..f.n |-> [xyz |-> <<k, 0, k>>, rgb |-> f.body[k].rgb]]])

PropertyNames(vertices) ==
    { vertices.properties[k].name : k \in 1..Len(vertices.properties) }
HasRGB(names) == "red" \in names /\ "green" \in names /\ "blue" \in names

\* ------------------------------------------------------ PLYProcessor.load_ply
\* The body of the try block.
load_ply_try(f) ==
    LET rd == PlyRead(f)
    IN IF rd.kind = "raise" THEN rd
       ELSE IF rd.value.element # "vertex" THEN Raise("KeyError")
       ELSE LET vertices == rd.value
                rows == vertices.rows
                points == [k \in 1..Len(rows) |-> rows[k].xyz]
                raw == [k \in 1..Len(rows) |-> rows[k].rgb]
                channels == [k \in 1..(3 * Len(rows)) |->
                               raw[((k - 1) \div 3) + 1][((k - 1) % 3) + 1]]
            IN IF ~HasRGB(PropertyNames(vertices))
               THEN Return([points |-> Some(points), colors |-> None])
               ELSE IF rows = <<>> THEN Raise("ValueError")
               ELSE IF SeqMax(channels) > 1
               THEN Return([points |-> Some(points),
                            colors |-> Some([k \in 1..Len(rows) |-> NormalizedColor(raw[k])])])
               ELSE Return([points |-> Some(points),
                            colors |-> Some([k \in 1..Len(rows) |->
                               <<Rat(raw[k][1], 1), Rat(raw[k][2], 1), Rat(raw[k][3], 1)>>])])

\* except Exception: log, return (None, None).
load_ply(f) ==
    LET r == load_ply_try(f)
    IN IF r.kind = "raise" THEN Return([points |-> None, colors |-> None]) ELSE r

\* -------------------------------------------------- PLYProcessor.get_ply_info
EmptyBounds == [empty |-> TRUE, min |-> <<>>, max |-> <<>>, center |-> <<>>]
Axis(points, a) == [k \in 1..Len(points) |-> points[k][a]]
Bounds(points) ==
    [empty |-> FALSE,
     min |-> [a \in 1..3 |-> SeqMin(Axis(points, a))],
     max |-> [a \in 1..3 |-> SeqMax(Axis(points, a))],
     center |-> [a \in 1..3 |-> Rat(SeqSum(Axis(points, a)), Len(points))]]

\* The size of an existing file, in lines.
FileSize(f) == Len(Lines(f))

ZeroInfo(path) ==
    [file_path |-> path, file_size |-> 0, point_count |-> 0, has_colors |-> FALSE,
     has_alpha |-> FALSE, properties |-> <<>>, bounds |-> EmptyBounds]

\* The body of the try block; min() of no coordinates raises ValueError.
get_ply_info_try(path, f) ==
    LET rd == PlyRead(f)
    IN IF rd.kind = "raise" THEN rd
       ELSE IF rd.value.element # "vertex" THEN Raise("KeyError")
       ELSE LET vertices == rd.value
                names == PropertyNames(vertices)
                points == [k \in 1..Len(vertices.rows) |-> vertices.rows[k].xyz]
            IN IF vertices.rows = <<>> THEN Raise("ValueError")
               ELSE Return([file_path |-> path, file_size |-> FileSize(f),
                            point_count |-> Len(vertices.rows),
                            has_colors |-> HasRGB(names),
                            has_alpha |-> "alpha" \in names,
                            properties |-> [k \in 1..Len(vertices.properties) |->
                                              vertices.properties[k].name],
                            bounds |-> Bounds(points)])

\* Fault: no except clause, the exception of the try block propagates.
get_ply_info_unguarded(path, f) == get_ply_info_try(path, f)
\* except Exception: log, return the zeroed record.
get_ply_info(path, f) ==
    LET r == get_ply_info_try(path, f)
    IN IF r.kind = "raise" THEN Return(ZeroInfo(path)) ELSE r

\* --------------------------------------------------------------- the state
VARIABLES
    entry,              \* the entry point the client called
    file, op, res,      \* a loader call: its file, the function, its outcome
    trajectory_type, trajectory_params,   \* CameraTrajectory's fields
    traj_exc,           \* the exception of the last set_trajectory call, or ""
    input_dir,          \* the files of PointCloudRenderer.input_dir, sorted
    rs_pc, scan_i, point_clouds,          \* render_sequence: position, scan
    engine_starts, proc, rs_res,          \* engine runs, last run, outcome
    ply_files,          \* main: the sorted files of INPUT_DIR
    main_pc, frame_i,   \* main: position, loop index i
    scene,              \* main: the objects and data blocks of the scene
    rendered,           \* main: frame numbers written to OUTPUT_DIR
    engine_failed,      \* main: frame numbers whose render call raised
    main_exc,           \* main: the exception that ended the run, or ""
    step,               \* main: the skip factor the script is configured with
    render_log,         \* main: what each render call was given, in order
    summary,            \* main: the numbers of the final messages
    euler_angles,       \* euler_to_rotation_matrix: (pitch, yaw, roll), degrees
    rotation_matrix     \* euler_to_rotation_matrix: the matrix returned

loader_vars == <<file, op, res>>
traj_vars == <<trajectory_type, trajectory_params, traj_exc>>
rs_vars == <<input_dir, rs_pc, scan_i, point_clouds, engine_starts, proc, rs_res>>
main_vars == <<ply_files, step, main_pc, frame_i, scene, rendered, engine_failed,
               main_exc, render_log, summary>>
euler_vars == <<euler_angles, rotation_matrix>>
vars == <<entry, loader_vars, traj_vars, rs_vars, main_vars, euler_vars>>

\* ------------------------------------------------------------ loader calls
NoRes == [kind |-> "none", exc |-> "", value |-> <<>>]

LoadPlyFile ==
    /\ entry = "loader" /\ op = "none"
    /\ op' = "load_ply_file"
    /\ res' = load_ply_file(file)
    /\ UNCHANGED <<entry, file, traj_vars, rs_vars, main_vars, euler_vars>>

LoadPly ==
    /\ entry = "loader" /\ op = "none"
    /\ op' = "load_ply"
    /\ res' = load_ply(file)
    /\ UNCHANGED <<entry, file, traj_vars, rs_vars, main_vars, euler_vars>>

GetPlyInfo ==
    /\ entry = "loader" /\ op = "none"
    /\ op' = "get_ply_info"
    /\ res' = get_ply_info("file.ply", file)
    /\ UNCHANGED <<entry, file, traj_vars, rs_vars, main_vars, euler_vars>>

\* ------------------------------------------------------- CameraTrajectory
\* dict.update
DictUpdate(d, u) ==
    [k \in (DOMAIN d) \cup (DOMAIN u) |-> IF k \in DOMAIN u THEN u[k] ELSE d[k]]
EmptyDict == [k \in {} |-> 0]
\* a keyword argument, or the parameter's default
Arg(kwargs, key, default) == IF key \in DOMAIN kwargs THEN kwargs[key] ELSE default

\* Angles are in degrees: 360 is the default end_angle 2 * math.pi.
_setup_linear_trajectory(params, kwargs) ==
    DictUpdate(params,
        [start_pos |-> Arg(kwargs, "start_pos", Some(<<0, 0, 5>>)),
         end_pos |-> Arg(kwargs, "end_pos", Some(<<5, 0, 5>>)),
         look_at |-> Arg(kwargs, "look_at", None),
         fixed_rotation |-> Arg(kwargs, "fixed_rotation", None)])

_setup_circular_trajectory(params, kwargs) ==
    LET center == Arg(kwargs, "center", Some(<<0, 0, 0>>))
        look_at == Arg(kwargs, "look_at", None)
    IN DictUpdate(params,
        [center |-> center,
         radius |-> Arg(kwargs, "radius", Some(5)),
         height |-> Arg(kwargs, "height", Some(2)),
         start_angle |-> Arg(kwargs, "start_angle", Some(0)),
         end_angle |-> Arg(kwargs, "end_angle", Some(360)),
         look_at |-> IF look_at.some THEN look_at ELSE center])

_setup_custom_trajectory(params, kwargs) ==
    LET keyframes == Arg(kwargs, "keyframes", None)
    IN DictUpdate(params,
        [keyframes |-> IF keyframes.some THEN keyframes ELSE Some(<<>>)])

\* The calls a client makes: a trajectory type and keyword arguments.
Keyframe(t, pos) == [time |-> t, position |-> pos, rotation |-> <<0, 0, 0>>]
TrajectoryCalls ==
    { <<"linear", EmptyDict>>,
      <<"linear", [look_at |-> Some(<<1, 1, 1>>)]>>,
      <<"linear", [fixed_rotation |-> Some(<<0, 90, 0>>)]>>,
      <<"circular", EmptyDict>>,
      <<"circular", [radius |-> Some(3)]>>,
      <<"custom", EmptyDict>>,
      <<"custom", [keyframes |-> Some(<<>>)]>>,
      <<"custom", [keyframes |-> Some(<<Keyframe(0, <<0, 0, 5>>)>>)]>>,
      <<"spiral", EmptyDict>>,
      <<"spiral", [radius |-> Some(3)]>> }

set_trajectory(type, kwargs) ==
    /\ trajectory_type' = type
    /\ IF type = "linear"
       THEN /\ trajectory_params' = _setup_linear_trajectory(trajectory_params, kwargs)
            /\ traj_exc' = ""
       ELSE IF type = "circular"
       THEN /\ trajectory_params' = _setup_circular_trajectory(trajectory_params, kwargs)
            /\ traj_exc' = ""
       ELSE IF type = "custom"
       THEN /\ trajectory_params' = _setup_custom_trajectory(trajectory_params, kwargs)
            /\ traj_exc' = ""
       ELSE /\ trajectory_params' = trajectory_params
            /\ traj_exc' = "ValueError"

SetTrajectory ==
    /\ entry = "trajectory"
    /\ \E c \in TrajectoryCalls : set_trajectory(c[1], c[2])
    /\ UNCHANGED <<entry, loader_vars, rs_vars, main_vars, euler_vars>>

\* CameraTrajectory.get_info
get_info == [type |-> trajectory_type, parameters |-> trajectory_params]

\* ------------------------------------------------ files of a frame sequence
RGBDecl == <<Prop("uchar", "red"), Prop("uchar", "green"), Prop("uchar", "blue")>>
PlyFile(end_header, element, n, props, body) ==
    [exists |-> TRUE, end_header |-> end_header, element |-> element, n |-> n,
     props |-> props, body |-> body]
\* One colored vertex; two vertices without color; no vertex; a non-numeric
\* coordinate; a header without end_header; a file deleted after the listing.
SampleFiles ==
    { PlyFile(TRUE, "vertex", 1, RGBDecl, <<Rec(6, TRUE, TRUE, <<255, 128, 1>>)>>),
      PlyFile(TRUE, "vertex", 2, <<>>,
              <<Rec(3, TRUE, TRUE, <<0, 0, 0>>), Rec(3, TRUE, TRUE, <<0, 0, 0>>)>>),
      PlyFile(TRUE, "vertex", 0, <<>>, <<>>),
      PlyFile(TRUE, "vertex", 1, <<>>, <<Rec(3, FALSE, TRUE, <<0, 0, 0>>)>>),
      PlyFile(FALSE, "vertex", 1, <<>>, <<Rec(3, TRUE, TRUE, <<0, 0, 0>>)>>),
      MissingFile }

\* --------------------------------- PointCloudRenderer.load_point_cloud_sequence
\* The outcome of render_sequence; msg is the text of the exception.
RsReturn(v) == [kind |-> "return", exc |-> "", msg |-> "", value |-> v]
RsRaise(e, m) == [kind |-> "raise", exc |-> e, msg |-> m, value |-> ""]
RsNone == [kind |-> "none", exc |-> "", msg |-> "", value |-> ""]
NoProc == [started |-> FALSE, returncode |-> 0, stderr |-> ""]

\* One iteration of the loop over ply_files: the entry of file i + 1, or
\* nothing when get_ply_info raised (except Exception: continue).
ScanEntry(i, f) ==
    LET info == get_ply_info(i + 1, f)
    IN IF info.kind = "raise" THEN <<>>
       ELSE <<[frame_number |-> i + 1, file_path |-> i + 1, data |-> info.value]>>

ScanStep ==
    /\ entry = "render_sequence" /\ rs_pc = "scan"
    /\ scan_i < Len(input_dir)
    /\ point_clouds' = point_clouds \o ScanEntry(scan_i, input_dir[scan_i + 1])
    /\ scan_i' = scan_i + 1
    /\ rs_pc' = IF scan_i + 1 = Len(input_dir) THEN "generate" ELSE "scan"
    /\ UNCHANGED <<entry, loader_vars, traj_vars, main_vars, euler_vars,
                   input_dir, engine_starts, proc, rs_res>>

\* ------------------------------------------ PointCloudRenderer.render_sequence
\* The call, up to the scan: with point_clouds=None the directory is listed,
\* and an empty listing raises FileNotFoundError.
RenderSequenceCall ==
    /\ entry = "render_sequence" /\ rs_pc = "idle"
    /\ \E given \in BOOLEAN :
         IF given
         THEN /\ rs_pc' = "generate"
              /\ rs_res' = rs_res
         ELSE IF input_dir = <<>>
         THEN /\ rs_pc' = "done"
              /\ rs_res' = RsRaise("FileNotFoundError", "No PLY files found")
         ELSE /\ rs_pc' = "scan"
              /\ rs_res' = rs_res
    /\ UNCHANGED <<entry, loader_vars, traj_vars, main_vars, euler_vars,
                   input_dir, scan_i, point_clouds, engine_starts, proc>>

\* mkdir and generate_script: the script is written, or the call raises.
GenerateScript ==
    /\ entry = "render_sequence" /\ rs_pc = "generate"
    /\ \E ok \in BOOLEAN :
         IF ok
         THEN /\ rs_pc' = "run"
              /\ rs_res' = rs_res
         ELSE /\ rs_pc' = "done"
              /\ rs_res' = RsRaise("Exception", "generate_script")
    /\ UNCHANGED <<entry, loader_vars, traj_vars, main_vars, euler_vars,
                   input_dir, scan_i, point_clouds, engine_starts, proc>>

\* The exit statuses and diagnostic outputs of the engine process.
ExitStatuses == {0, 1, 2, 255}
Diagnostics == {"", "Error: out of memory"}

\* Fault: the exit status is not looked at.
RenderSequenceAlwaysReturns(p) == RsReturn("output_dir")
\* What render_sequence does with a finished process.
RenderSequenceOutcome(p) ==
    IF p.returncode = 0 THEN RsReturn("output_dir")
    ELSE RsRaise("RuntimeError", p.stderr)

\* subprocess.run: the process cannot be started (OSError), or it runs to
\* its exit status.
RunEngine ==
    /\ entry = "render_sequence" /\ rs_pc = "run"
    /\ rs_pc' = "done"
    /\ \/ /\ rs_res' = RsRaise("OSError", "cannot execute")
          /\ UNCHANGED <<engine_starts, proc>>
       \/ \E rc \in ExitStatuses, err \in Diagnostics :
            /\ engine_starts' = engine_starts + 1
            /\ proc' = [started |-> TRUE, returncode |-> rc, stderr |-> err]
            /\ rs_res' = RenderSequenceOutcome(proc')
    /\ UNCHANGED <<entry, loader_vars, traj_vars, main_vars, euler_vars,
                   input_dir, scan_i, point_clouds>>

\* ------------------------------------------------- render_full_video.main
STEP == 10
\* The skip factors the script is configured with: every frame, every third
\* frame, and the value of STEP.
SkipFactors == {1, 2, STEP}

\* The listings of INPUT_DIR with n files under skip factor s. Only the files
\* main opens differ between listings: file i (0-based) is opened when
\* i % s = 0.
DefaultFile ==
    PlyFile(TRUE, "vertex", 1, RGBDecl, <<Rec(6, TRUE, TRUE, <<255, 128, 1>>)>>)
Listings(n, s) ==
    { [k \in 1..n |-> IF (k - 1) % s = 0 THEN sel[((k - 1) \div s) + 1]
                                         ELSE DefaultFile] :
        sel \in [1..((n + s - 1) \div s) -> SampleFiles] }

\* CAMERA_POS (5.4, -5, 3.5) in tenths, CAMERA_ROT_DEGREES in degrees.
CAMERA_POS == <<54, -50, 35>>
CAMERA_ROT_DEGREES == <<42, 90, 0>>
NoPose == [location |-> <<0, 0, 0>>, rotation_euler |-> <<0, 0, 0>>]

\* The scene: the camera (with its pose) and the lights of the setup, the
\* objects named Sphere_* and the frame number they were made for, the
\* PointCloudSpheres collections, the material data blocks (all of them, and
\* per frame the SphereMaterial_* copies made for its spheres) and the mesh
\* data blocks.
EmptyScene ==
    [camera |-> FALSE, camera_pose |-> NoPose, lights |-> 0,
     spheres |-> 0, spheres_of |-> 0, sphere_collections |-> 0,
     materials |-> 0, sphere_materials |-> {}, meshes |-> 0]

\* clear_scene, setup_render_settings, setup_camera, add_lighting
SetupScene ==
    [EmptyScene EXCEPT !.camera = TRUE,
                       !.camera_pose = [location |-> CAMERA_POS,
                                        rotation_euler |-> CAMERA_ROT_DEGREES],
                       !.lights = 2]

\* The loop's removal of the sphere collections and Sphere_* objects, then
\* create_sphere_objects: a base mesh and material, a collection, and per
\* point an object with a mesh copy and, with colors, a material copy. The
\* loop removes no material and no mesh.
create_sphere_objects(sc, frame_number, points, colors) ==
    LET copies == IF colors.some THEN Min2(Len(points), Len(colors.val)) ELSE 0
    IN [sc EXCEPT !.spheres = Len(points),
                  !.spheres_of = frame_number,
                  !.sphere_collections = 1,
                  !.materials = @ + 1 + copies,
                  !.sphere_materials =
                      @ \cup (IF copies > 0 THEN {<<frame_number, copies>>} ELSE {}),
                  !.meshes = @ + 1 + Len(points)]

\* f"{n:04d}": the decimal digits of n, zero-padded to four.
RECURSIVE Digits(_)
Digits(n) == IF n < 10 THEN <<n>> ELSE Append(Digits(n \div 10), n % 10)
RECURSIVE ZeroPad(_, _)
ZeroPad(d, w) == IF Len(d) >= w THEN d ELSE ZeroPad(<<0>> \o d, w)
\* os.path.join(OUTPUT_DIR, f"frame_{frame_number:04d}")
OutputFile(frame_number) ==
    [dir |-> "output/full_video_working/", prefix |-> "frame_",
     number |-> ZeroPad(Digits(frame_number), 4)]

\* Fault: the frame is numbered by its position among the rendered frames.
FrameJobByPosition(i, position, sc, loaded) ==
    [source |-> i + 1, frame_number |-> position + 1,
     points |-> loaded.points.val, colors |-> loaded.colors,
     scene |-> sc, filepath |-> OutputFile(position + 1), ok |-> TRUE]
\* What one render call is given: the file of the listing that was loaded
\* (source, 1-based), frame_number = i + 1, its points and colors, the scene
\* and scene.render.filepath. position counts the render calls made before.
FrameJob(i, position, sc, loaded) ==
    [source |-> i + 1, frame_number |-> i + 1,
     points |-> loaded.points.val, colors |-> loaded.colors,
     scene |-> sc, filepath |-> OutputFile(i + 1), ok |-> TRUE]

NoSummary == [printed |-> FALSE, rendered |-> 0, generated |-> 0]

MainStart ==
    /\ entry = "main" /\ main_pc = "start"
    /\ IF Len(ply_files) = 0
       THEN /\ main_pc' = "returned"
            /\ scene' = scene
       ELSE /\ main_pc' = "loop"
            /\ scene' = SetupScene
    /\ UNCHANGED <<entry, loader_vars, traj_vars, rs_vars, euler_vars,
                   ply_files, step, frame_i, rendered, engine_failed, main_exc,
                   render_log, summary>>

\* One iteration of the loop over enumerate(ply_files). An exception of
\* load_ply_file or of the render call is not caught and ends main.
MainFrame ==
    /\ entry = "main" /\ main_pc = "loop"
    /\ frame_i < Len(ply_files)
    /\ LET i == frame_i
           frame_number == i + 1
           loaded == load_ply_file(ply_files[i + 1])
       IN IF i % step # 0
          THEN /\ frame_i' = i + 1
               /\ UNCHANGED <<main_pc, scene, rendered, engine_failed, main_exc,
                              render_log>>
          ELSE IF loaded.kind = "raise"
          THEN /\ main_pc' = "aborted"
               /\ main_exc' = loaded.exc
               /\ UNCHANGED <<frame_i, scene, rendered, engine_failed, render_log>>
          ELSE IF Len(loaded.value.points.val) = 0
          THEN /\ frame_i' = i + 1
               /\ UNCHANGED <<main_pc, scene, rendered, engine_failed, main_exc,
                              render_log>>
          ELSE LET sc == create_sphere_objects(scene, frame_number,
                               loaded.value.points.val, loaded.value.colors)
                   job == FrameJob(i, Len(render_log), sc, loaded.value)
               IN /\ scene' = sc
                  /\ \E render_ok \in BOOLEAN :
                       /\ render_log' = Append(render_log, [job EXCEPT !.ok = render_ok])
                       /\ IF render_ok
                          THEN /\ rendered' = rendered \cup {frame_number}
                               /\ frame_i' = i + 1
                               /\ UNCHANGED <<main_pc, engine_failed, main_exc>>
                          ELSE /\ engine_failed' = engine_failed \cup {frame_number}
                               /\ main_pc' = "aborted"
                               /\ main_exc' = "RuntimeError"
                               /\ UNCHANGED <<frame_i, rendered>>
    /\ UNCHANGED <<entry, loader_vars, traj_vars, rs_vars, euler_vars,
                   ply_files, step, summary>>

\* After the loop: "Rendered {total_frames} frames", and the number of PNG
\* files found in OUTPUT_DIR (which was empty before the run).
MainSummary ==
    /\ entry = "main" /\ main_pc = "loop"
    /\ frame_i = Len(ply_files)
    /\ main_pc' = "done"
    /\ summary' = [printed |-> TRUE, rendered |-> Len(ply_files),
                   generated |-> Cardinality(rendered)]
    /\ UNCHANGED <<entry, loader_vars, traj_vars, rs_vars, euler_vars,
                   ply_files, step, frame_i, scene, rendered, engine_failed,
                   main_exc, render_log>>

\* ------------------------------- CameraTrajectory.euler_to_rotation_matrix
\* math.cos and math.sin at the multiples of 90 degrees, taken as exact.
RightAngles == {0, 90, 180, 270}
CosDeg(a) == CASE a % 360 = 0 -> 1 [] a % 360 = 90 -> 0
               [] a % 360 = 180 -> -1 [] a % 360 = 270 -> 0
SinDeg(a) == CASE a % 360 = 0 -> 0 [] a % 360 = 90 -> 1
               [] a % 360 = 180 -> 0 [] a % 360 = 270 -> -1

\* The @ of two 3x3 arrays.
MatMul(A, B) ==
    [r \in 1..3 |-> [c \in 1..3 |->
        A[r][1] * B[1][c] + A[r][2] * B[2][c] + A[r][3] * B[3][c]]]

Rx(pitch) ==
    <<<<1, 0, 0>>,
      <<0, CosDeg(pitch), -SinDeg(pitch)>>,
      <<0, SinDeg(pitch), CosDeg(pitch)>>>>
Ry(yaw) ==
    <<<<CosDeg(yaw), 0, SinDeg(yaw)>>,
      <<0, 1, 0>>,
      <<-SinDeg(yaw), 0, CosDeg(yaw)>>>>
Rz(roll) ==
    <<<<CosDeg(roll), -SinDeg(roll), 0>>,
      <<SinDeg(roll), CosDeg(roll), 0>>,
      <<0, 0, 1>>>>

\* Fault: the rotations are combined in the opposite order.
euler_to_rotation_matrix_xyz(angles) ==
    MatMul(MatMul(Rx(angles[1]), Ry(angles[2])), Rz(angles[3]))
\* pitch, yaw, roll = euler_angles; return Rz @ Ry @ Rx
euler_to_rotation_matrix(angles) ==
    MatMul(MatMul(Rz(angles[3]), Ry(angles[2])), Rx(angles[1]))

NoMatrix == <<>>
EulerToRotationMatrix ==
    /\ entry = "euler" /\ rotation_matrix = NoMatrix
    /\ rotation_matrix' = euler_to_rotation_matrix(euler_angles)
    /\ UNCHANGED <<entry, loader_vars, traj_vars, rs_vars, main_vars, euler_angles>>

\* ------------------------------------------------------- the specification
TrajectoryInit ==
    trajectory_type = "None" /\ trajectory_params = EmptyDict /\ traj_exc = ""
RsIdle ==
    /\ rs_pc = "idle" /\ scan_i = 0 /\ point_clouds = <<>>
    /\ engine_starts = 0 /\ proc = NoProc /\ rs_res = RsNone
MainIdle ==
    /\ main_pc = "start" /\ frame_i = 0 /\ scene = EmptyScene
    /\ rendered = {} /\ engine_failed = {} /\ main_exc = ""
    /\ render_log = <<>> /\ summary = NoSummary

Init ==
    /\ entry \in {"loader", "trajectory", "render_sequence", "main", "euler"}
    /\ TrajectoryInit /\ RsIdle /\ MainIdle
    /\ op = "none" /\ res = NoRes
    /\ IF entry = "loader" THEN file \in Files ELSE file = MissingFile
    /\ IF entry = "render_sequence"
       THEN input_dir \in SeqsUpTo(SampleFiles, MaxScan)
       ELSE input_dir = <<>>
    /\ IF entry = "main" THEN step \in SkipFactors ELSE step = STEP
    /\ IF entry = "main"
       THEN \E n \in 0..Min2(MaxFrames, MaxOpened * step) :
                ply_files \in Listings(n, step)
       ELSE ply_files = <<>>
    /\ IF entry = "euler"
       THEN euler_angles \in RightAngles \X RightAngles \X RightAngles
       ELSE euler_angles = <<0, 0, 0>>
    /\ rotation_matrix = NoMatrix

Next ==
    \/ LoadPlyFile \/ LoadPly \/ GetPlyInfo
    \/ SetTrajectory
    \/ RenderSequenceCall \/ ScanStep \/ GenerateScript \/ RunEngine
    \/ MainStart \/ MainFrame \/ MainSummary
    \/ EulerToRotationMatrix

Spec == Init /\ [][Next]_vars

\* ================================================================= claims
Loaders == {"load_ply_file", "load_ply"}
\* The header is complete and declares a vertex element.
DeclaresVertices(f) == f.exists /\ f.end_header /\ f.element = "vertex"
\* The records the header announces that the body holds.
Announced(f) == 1..Min2(f.n, Len(f.body))
\* The body holds fewer records than declared, or one of them has fewer
\* than three fields.
Truncated(f) ==
    Len(f.body) < f.n \/ \E k \in Announced(f) : f.body[k].nf < 3
ReturnedPoints == res.kind = "return" /\ res.value.points.some

\* C1: for a file whose header declares n vertices, when the body holds fewer
\* than n records or one of them has fewer than 3 fields, load does not
\* return a point cloud: no returned point set has fewer than n points.
C1_NoPartialPointCloud ==
    (entry = "loader" /\ op \in Loaders /\ DeclaresVertices(file) /\ Truncated(file))
        => ~(ReturnedPoints /\ Len(res.value.points.val) < file.n)

\* The file cannot be parsed: the header is cut or declares no vertex
\* element, the vertex block is truncated, or a coordinate is not numeric.
Unparsable(f) ==
    /\ f.exists
    /\ \/ ~f.end_header
       \/ f.element # "vertex"
       \/ Truncated(f)
       \/ \E k \in Announced(f) : ~f.body[k].coordOk

\* C2: for a nonexistent path or an unparsable file, load signals an error
\* to its caller instead of returning normally.
C2_LoadFailsFast ==
    (entry = "loader" /\ op \in Loaders /\ (~file.exists \/ Unparsable(file)))
        => res.kind = "raise"

\* The file holds n >= 1 well-formed records, one field per declared property.
WellFormed(f) ==
    /\ DeclaresVertices(f) /\ f.n >= 1 /\ Len(f.body) >= f.n
    /\ \A k \in 1..f.n :
         /\ f.body[k].nf = 3 + Len(f.props)
         /\ f.body[k].coordOk /\ f.body[k].colorOk

\* C3: get_ply_info never raises; for a missing, malformed or vertex-less
\* file it returns the zeroed record; and the pre-scan of a directory of N
\* files returns N entries numbered 1..N (an empty directory is refused
\* before any file is scanned).
C3_GetInfoNeverRaises ==
    /\ (entry = "loader" /\ op = "get_ply_info") =>
          /\ res.kind = "return"
          /\ ~WellFormed(file) => res.value = ZeroInfo("file.ply")
          /\ WellFormed(file) => res.value.point_count = file.n
    /\ (entry = "render_sequence" /\ rs_pc \in {"scan", "generate", "run", "done"}) =>
          /\ Len(point_clouds) = scan_i
          /\ \A k \in 1..Len(point_clouds) : point_clouds[k].frame_number = k
          /\ (scan_i > 0 /\ rs_pc # "scan") => Len(point_clouds) = Len(input_dir)
          /\ (rs_res.exc = "FileNotFoundError") => input_dir = <<>>

\* A finished pre-scan of two or more files, one of them unreadable and one
\* of them with points.
C3_Witness ==
    /\ entry = "render_sequence" /\ rs_pc = "generate"
    /\ scan_i = Len(input_dir) /\ Len(point_clouds) >= 2
    /\ \E k \in 1..Len(point_clouds) : point_clouds[k].data = ZeroInfo(k)
    /\ \E k \in 1..Len(point_clouds) : point_clouds[k].data.point_count > 0

\* Every announced record carries a position and three integer channels,
\* under a header that declares uchar red, green, blue.
FullColorFile(f) ==
    /\ DeclaresVertices(f) /\ f.props = RGBDecl /\ f.n >= 1 /\ Len(f.body) >= f.n
    /\ \A k \in 1..f.n : f.body[k].nf = 6 /\ f.body[k].coordOk /\ f.body[k].colorOk

\* C4: with declared colors, every emitted channel times 255 equals the raw
\* channel value c of the file, whatever the other values of the file are.
C4_ColorIsRawOver255 ==
    (entry = "loader" /\ op \in Loaders /\ FullColorFile(file)) =>
        /\ res.kind = "return" /\ res.value.colors.some
        /\ Len(res.value.colors.val) = file.n
        /\ \A k \in 1..file.n : \A j \in 1..3 :
             RatEq(res.value.colors.val[k][j], Rat(file.body[k].rgb[j], 255))

\* The same, for load_ply_file alone.
C4_HoldsForLoadPlyFile ==
    (entry = "loader" /\ op = "load_ply_file" /\ FullColorFile(file)) =>
        /\ res.kind = "return" /\ res.value.colors.some
        /\ \A k \in 1..file.n : \A j \in 1..3 :
             RatEq(res.value.colors.val[k][j], Rat(file.body[k].rgb[j], 255))

\* main has ended: it returned, or an exception left it.
MainEnded == entry = "main" /\ main_pc \in {"returned", "done", "aborted"}
\* The frames (0-based) the skip factor selects.
Selected == { i \in 0..(Len(ply_files) - 1) : i % step = 0 }
\* The frame's file loads with at least one point.
Loadable(f) ==
    LET r == load_ply_file(f)
    IN r.kind = "return" /\ Len(r.value.points.val) > 0

\* C5: a failing frame is skipped and the run goes on: when main has ended it
\* was not aborted, and every selected frame whose file loads and whose
\* render did not fail has been rendered.
C5_BadFrameIsSkipped ==
    MainEnded =>
        /\ main_pc # "aborted"
        /\ \A i \in Selected :
             (Loadable(ply_files[i + 1]) /\ (i + 1) \notin engine_failed)
                 => (i + 1) \in rendered

\* C6: render_sequence returns the output directory exactly when the engine
\* process exited with status 0; a non-zero status raises an error carrying
\* the captured stderr; the engine is started at most once per call.
C6_ExitStatusContract ==
    entry = "render_sequence" =>
        /\ engine_starts <= 1
        /\ rs_pc = "done" =>
             /\ rs_res.kind \in {"return", "raise"}
             /\ rs_res.kind = "return" <=> (proc.started /\ proc.returncode = 0)
             /\ rs_res.kind = "return" => rs_res.value = "output_dir"
             /\ (proc.started /\ proc.returncode # 0) =>
                  (rs_res.exc = "RuntimeError" /\ rs_res.msg = proc.stderr)

\* The engine exited with a non-zero status and diagnostic output, and
\* render_sequence raised.
C6_Witness ==
    /\ entry = "render_sequence" /\ rs_pc = "done"
    /\ proc.started /\ proc.returncode = 2 /\ proc.stderr # ""
    /\ rs_res.kind = "raise" /\ engine_starts = 1

\* The parameters of each variant.
VariantParams(type) ==
    IF type = "linear" THEN {"start_pos", "end_pos", "look_at", "fixed_rotation"}
    ELSE IF type = "circular"
    THEN {"center", "radius", "height", "start_angle", "end_angle", "look_at"}
    ELSE IF type = "custom" THEN {"keyframes"}
    ELSE {}

\* C7: after any sequence of set_trajectory calls the state get_info reports
\* is a well-formed variant: the type is linear, circular, custom or unset,
\* and the parameters are exactly those of that variant.
C7_WellFormedVariant ==
    entry = "trajectory" =>
        /\ get_info.type \in {"None", "linear", "circular", "custom"}
        /\ DOMAIN get_info.parameters = VariantParams(get_info.type)

\* C8: a custom trajectory with zero keyframes is rejected: no accepted call
\* leaves a custom trajectory with an empty keyframe list active.
C8_EmptyCustomRejected ==
    (entry = "trajectory" /\ trajectory_type = "custom" /\ traj_exc = "")
        => trajectory_params["keyframes"].val # <<>>

\* The header declares uchar red, uchar green and uchar blue.
DeclaresUcharRGB(props) ==
    \A c \in {"red", "green", "blue"} :
        \E k \in 1..Len(props) : props[k] = Prop("uchar", c)

\* C9: the parser reports colors exactly when the header declares the three
\* uchar properties red, green, blue: for every result with at least one
\* point, each loader returns colors, and get_ply_info sets has_colors, iff
\* the header declares them.
C9_ColorsIffUcharRGB ==
    /\ (entry = "loader" /\ op \in Loaders /\ ReturnedPoints
          /\ Len(res.value.points.val) >= 1)
         => (res.value.colors.some <=> DeclaresUcharRGB(file.props))
    /\ (entry = "loader" /\ op = "get_ply_info" /\ res.value.point_count >= 1)
         => (res.value.has_colors <=> DeclaresUcharRGB(file.props))

\* load_ply and get_ply_info report the same flag for a file both read.
C9_LoadPlyAgreesWithInfo ==
    \A f \in Files :
        LET l == load_ply(f)
            g == get_ply_info("file.ply", f)
        IN (l.value.points.some /\ g.value.point_count >= 1)
               => (l.value.colors.some <=> g.value.has_colors)

\* The announced body lines load_ply_file keeps (three fields or more), by
\* their position in the body.
KeptLines(f) ==
    SelectSeq([k \in 1..Min2(f.n, Len(f.body)) |-> k], LAMBDA k : f.body[k].nf >= 3)
\* The color a kept line stands for: its channels over 255, or white when
\* the line omits the color fields.
ExpectedColor(r) ==
    IF r.nf >= 6 THEN <<Rat(r.rgb[1], 255), Rat(r.rgb[2], 255), Rat(r.rgb[3], 255)>>
    ELSE <<Rat(1, 1), Rat(1, 1), Rat(1, 1)>>
\* No announced line holds a non-numeric coordinate or color field.
NumericBody(f) ==
    \A k \in Announced(f) : f.body[k].coordOk /\ f.body[k].colorOk

\* C10: in every result of load_ply_file with colors there is one color per
\* point, entry i being the color of point i: the normalized channels of its
\* line, or white (1.0, 1.0, 1.0) when the line carries the position and
\* omits the color fields; and such a line does not fail the load.
C10_WhiteForMissingColor ==
    (entry = "loader" /\ op = "load_ply_file") =>
        /\ (DeclaresVertices(file) /\ NumericBody(file)) => res.kind = "return"
        /\ (res.kind = "return" /\ res.value.colors.some) =>
             LET kept == KeptLines(file)
                 points == res.value.points.val
                 colors == res.value.colors.val
             IN /\ DeclaresVertices(file)
                /\ Len(points) = Len(kept) /\ Len(colors) = Len(points)
                /\ \A i \in 1..Len(kept) :
                     /\ points[i] = <<kept[i], 0, kept[i]>>
                     /\ colors[i] = ExpectedColor(file.body[kept[i]])

\* A load of two points, the first from a line with six fields and the
\* second from a line without color fields, which received white.
C10_Witness ==
    /\ entry = "loader" /\ op = "load_ply_file" /\ res.kind = "return"
    /\ file.n = 2 /\ Len(file.body) = 2
    /\ file.body[1].nf = 6 /\ file.body[1].rgb = <<255, 128, 1>>
    /\ file.body[2].nf = 3
    /\ res.value.colors.some
    /\ res.value.colors.val = <<<<Rat(255, 255), Rat(128, 255), Rat(1, 255)>>, White>>

\* What a render of the file at 1-based place n of the listing is given,
\* written from the listing and n alone: the file's points and colors, the
\* pose of the camera, and the output path with n on four digits.
FourDigits(n) == <<n \div 1000, (n \div 100) % 10, (n \div 10) % 10, n % 10>>
FixedPose == [location |-> <<54, -50, 35>>, rotation_euler |-> <<42, 90, 0>>]
ExpectedPath(n) ==
    [dir |-> "output/full_video_working/", prefix |-> "frame_",
     number |-> FourDigits(n)]

\* C11: whatever the skip factor, a render of the frame at original index i
\* reads the file at index i of the listing, sees the one fixed camera pose,
\* and writes to the path made of i on four digits; none of the three depends
\* on the skip factor or on how many frames were rendered before it, so two
\* runs with different skip factors agree on every frame both of them render.
C11_SubsamplingInvariance ==
    entry = "main" =>
        \A k \in 1..Len(render_log) :
            LET job == render_log[k]
                r == load_ply_file(ply_files[job.source])
            IN /\ job.source \in 1..Len(ply_files)
               /\ (job.source - 1) % step = 0
               /\ job.frame_number = job.source
               /\ r.kind = "return"
               /\ job.points = r.value.points.val
               /\ job.colors = r.value.colors
               /\ job.scene.camera /\ job.scene.camera_pose = FixedPose
               /\ job.filepath = ExpectedPath(job.source)

\* With skip factor 2 the second render is of the file at place 3, which a
\* run with skip factor 1 renders third; it went to frame_0003.
C11_Witness ==
    /\ entry = "main" /\ step = 2
    /\ Len(render_log) >= 2
    /\ render_log[2].source = 3 /\ render_log[2].ok
    /\ render_log[2].filepath.number = <<0, 0, 0, 3>>
    /\ 3 \in rendered

\* The matrix Rz(roll) * Ry(yaw) * Rx(pitch) written out entry by entry.
ZYX(pitch, yaw, roll) ==
    LET cx == CosDeg(pitch)  sx == SinDeg(pitch)
        cy == CosDeg(yaw)    sy == SinDeg(yaw)
        cz == CosDeg(roll)   sz == SinDeg(roll)
    IN <<<<cy * cz, sx * sy * cz - cx * sz, cx * sy * cz + sx * sz>>,
         <<cy * sz, sx * sy * sz + cx * cz, cx * sy * sz - sx * cz>>,
         <<-sy, sx * cy, cx * cy>>>>
\* The products of the three axis rotations taken in the five other orders.
OtherOrders(pitch, yaw, roll) ==
    LET X == Rx(pitch)  Y == Ry(yaw)  Z == Rz(roll)
    IN { MatMul(MatMul(Z, X), Y), MatMul(MatMul(Y, Z), X),
         MatMul(MatMul(Y, X), Z), MatMul(MatMul(X, Z), Y),
         MatMul(MatMul(X, Y), Z) }

\* C12: for every (pitch, yaw, roll) of multiples of 90 degrees the matrix
\* euler_to_rotation_matrix returns is Rz(roll) * Ry(yaw) * Rx(pitch), and it
\* differs from the product in any other order that differs from that one.
C12_RotationOrderZYX ==
    (entry = "euler" /\ rotation_matrix # NoMatrix) =>
        LET pitch == euler_angles[1]
            yaw == euler_angles[2]
            roll == euler_angles[3]
        IN /\ rotation_matrix = ZYX(pitch, yaw, roll)
           /\ \A P \in OtherOrders(pitch, yaw, roll) :
                P # ZYX(pitch, yaw, roll) => rotation_matrix # P

\* The matrix of pitch 90, yaw 90, roll 0, where the order matters: the
\* product Rx * Ry * Rz of the same angles has (0, 0, 1) as its first row.
C12_Witness ==
    /\ entry = "euler" /\ euler_angles = <<90, 90, 0>>
    /\ rotation_matrix = <<<<0, 1, 0>>, <<0, 0, -1>>, <<-1, 0, 0>>>>
    /\ MatMul(MatMul(Rx(90), Ry(90)), Rz(0)) # rotation_matrix

\* C13: when main prints its summary, the number of frames it reports as
\* rendered is the number of frames for which a render was performed in the
\* run, whatever the length of the listing, the skip factor and the frames
\* skipped for having no points.
C13_ReportedEqualsRendered ==
    (entry = "main" /\ summary.printed) =>
        /\ summary.rendered = Cardinality(rendered)
        /\ summary.rendered = Len(render_log)

\* C14: at every render of main's loop the scene holds one sphere object per
\* loaded point of the frame being rendered and one sphere collection, both
\* made for that frame; every per-sphere material in it was made for that
\* frame; and the camera and the two lights of the setup are present.
C14_NoHistoryBetweenFrames ==
    entry = "main" =>
        \A k \in 1..Len(render_log) :
            LET job == render_log[k]
            IN /\ job.scene.spheres = Len(job.points)
               /\ job.scene.spheres_of = job.frame_number
               /\ job.scene.sphere_collections = 1
               /\ \A m \in job.scene.sphere_materials : m[1] = job.frame_number
               /\ job.scene.camera /\ job.scene.lights = 2

\* C15: a set_trajectory call that raises ValueError for an unknown type
\* leaves the evaluator as it was: get_info reports the same trajectory type
\* and the same parameters after the call as before it.
C15_FailedCallLeavesInfo ==
    [][(entry = "trajectory" /\ traj_exc' = "ValueError") => get_info' = get_info]_vars

====
